---- MODULE Spec2Model ----
(***************************************************************************)
(* A model of the topographical SEIR / SEIRDS epidemic simulator           *)
(* (SEIR_model.py, SEIRDS_model.py) and of the coupling-matrix generators  *)
(* (topography.py).                                                        *)
(*                                                                         *)
(* Numbers.  A Python float is modelled as the exact real it denotes.      *)
(* A rational is the pair <<n, d>> in lowest terms with d > 0.  The        *)
(* values math.exp produces are kept symbolically: <<n, d, s, wn, wd>>     *)
(* denotes (n/d) * exp(s * sqrt(wn/wd)) with s in {-1, 1}; when the        *)
(* coefficient or the exponent is zero the value is the plain rational.    *)
(* By the Lindemann-Weierstrass theorem two such values denote the same    *)
(* real exactly when they are the same tuple, so = on the model's values   *)
(* is = on the reals.                                                      *)
(*                                                                         *)
(* Arrays.  A numpy array is a record [shape, data]: shape = <<rows,       *)
(* cols>> and data maps the row-major flat index 0 .. rows*cols-1 to the   *)
(* element.  Arrays live in a heap and are named by references, so that    *)
(* aliasing (self.n = populations) and copying (populations.copy()) are    *)
(* told apart and in-place updates (+=) are seen through every alias.      *)
(***************************************************************************)
EXTENDS Integers, Sequences, FiniteSets, TLC

VARIABLES heap, model, calls, status

vars == <<heap, model, calls, status>>

-----------------------------------------------------------------------------
(* Bounds of the model.                                                    *)

\* The longest sequence of infect / timestep calls a driver makes.
MaxCalls == 3

\* A timestep is taken only while dt's denominator times a cell's population
\* times the square of a compartment value's denominator is at most MaxScale
\* (keeps the exact arithmetic within TLC's integers).
MaxScale == 36500

\* Grids of the topography generators have at most MaxSide rows and columns.
MaxSide == 3

-----------------------------------------------------------------------------
(* Exact rational arithmetic.                                              *)

Abs(a) == IF a < 0 THEN -a ELSE a

Sgn(a) == IF a < 0 THEN -1 ELSE IF a = 0 THEN 0 ELSE 1

RECURSIVE GCD(_, _)
GCD(a, b) == IF b = 0 THEN a ELSE GCD(b, a % b)

\* The rational n/d in lowest terms (d # 0).
Q(n, d) ==
    LET g == GCD(Abs(n), Abs(d))
    IN  IF d < 0 THEN <<(-n) \div g, (-d) \div g>> ELSE <<n \div g, d \div g>>

QZero == <<0, 1>>
QOne  == <<1, 1>>

QNeg(a) == <<-a[1], a[2]>>

QAdd(a, b) ==
    IF a[1] = 0 THEN b
    ELSE IF b[1] = 0 THEN a
    ELSE LET g == GCD(a[2], b[2])
         IN  Q(a[1] * (b[2] \div g) + b[1] * (a[2] \div g), (a[2] \div g) * b[2])

QSub(a, b) == QAdd(a, QNeg(b))

QMul(a, b) ==
    IF a[1] = 0 \/ b[1] = 0 THEN QZero
    ELSE LET g1 == GCD(Abs(a[1]), b[2])
             g2 == GCD(Abs(b[1]), a[2])
         IN  <<(a[1] \div g1) * (b[1] \div g2), (a[2] \div g2) * (b[2] \div g1)>>

\* a / b for b # 0.
QDiv(a, b) == QMul(a, Q(b[2], b[1]))

QLess(a, b) == a[1] * b[2] < b[1] * a[2]

-----------------------------------------------------------------------------
(* Reals of the form q * exp(s * sqrt(w)): what math.sqrt and math.exp     *)
(* make of rationals.                                                      *)

IsRational(v) == Len(v) = 2

Coef(v) == <<v[1], v[2]>>

\* The exponent of v as a surd <<s, w>> = s * sqrt(w), w a rational >= 0.
Expo(v) == IF IsRational(v) THEN <<0, QZero>> ELSE <<v[3], <<v[4], v[5]>>>>

\* q * exp(x), normalised.
MkReal(q, x) ==
    IF q[1] = 0 \/ x[1] = 0 THEN q ELSE <<q[1], q[2], x[1], x[2][1], x[2][2]>>

\* math.sqrt(n) for an integer n >= 0: the surd sqrt(n).
math_sqrt(n) == IF n = 0 THEN <<0, QZero>> ELSE <<1, <<n, 1>>>>

\* The rational r as a surd: sgn(r) * sqrt(r * r).
SurdOfRational(r) == <<Sgn(r[1]), QMul(r, r)>>

\* The surd x times the rational r.
SurdTimes(x, r) == <<x[1] * Sgn(r[1]), QMul(x[2], QMul(r, r))>>

SurdNeg(x) == <<-x[1], x[2]>>

\* x < y for surds.
SurdLess(x, y) ==
    IF x[1] # y[1] THEN x[1] < y[1]
    ELSE IF x[1] = 1 THEN QLess(x[2], y[2])
    ELSE IF x[1] = -1 THEN QLess(y[2], x[2])
    ELSE FALSE

\* math.exp(x) for a surd x.
math_exp(x) == MkReal(QOne, x)

\* The rational c times the real v.
RealTimes(c, v) == MkReal(QMul(c, Coef(v)), Expo(v))

\* a < b for reals.  Decided from the signs, or, when the coefficients or
\* the exponents agree, from the monotonicity of exp; no other comparison is
\* ever needed for the matrices of one generator call (none is defined).
RealLess(a, b) ==
    LET qa == Coef(a)
        qb == Coef(b)
        xa == Expo(a)
        xb == Expo(b)
    IN  IF a = b THEN FALSE
        ELSE IF Sgn(qa[1]) # Sgn(qb[1]) THEN Sgn(qa[1]) < Sgn(qb[1])
        ELSE IF xa = xb THEN QLess(qa, qb)
        ELSE IF qa = qb THEN
            IF qa[1] > 0 THEN SurdLess(xa, xb) ELSE SurdLess(xb, xa)
        ELSE CHOOSE undecided \in {} : TRUE

RealMax(a, b) == IF RealLess(a, b) THEN b ELSE a

-----------------------------------------------------------------------------
(* numpy arrays.                                                           *)

Size(shape) == shape[1] * shape[2]

Indices(shape) == 0 .. (Size(shape) - 1)

\* The flat index of element [row, col] of an array of the given shape.
Flat(shape, row, col) == row * shape[2] + col

At(A, row, col) == A.data[Flat(A.shape, row, col)]

np_zeros(shape) == [shape |-> shape, data |-> [k \in Indices(shape) |-> QZero]]

np_full(shape, v) == [shape |-> shape, data |-> [k \in Indices(shape) |-> v]]

np_identity(n) ==
    [shape |-> <<n, n>>,
     data  |-> [k \in Indices(<<n, n>>) |->
                   IF k \div n = k % n THEN QOne ELSE QZero]]

transpose(A) ==
    LET shape == <<A.shape[2], A.shape[1]>>
    IN  [shape |-> shape,
         data  |-> [k \in Indices(shape) |->
                       At(A, k % shape[2], k \div shape[2])]]

np_maximum(A, B) ==
    [shape |-> A.shape,
     data  |-> [k \in Indices(A.shape) |-> RealMax(A.data[k], B.data[k])]]

-----------------------------------------------------------------------------
(* topography.py: the four generators of coupling matrices.                *)

\* The offsets (row_offset, col_offset) that the loops of iteration i visit
\* and that lead from cell i to the in-bounds cell src.
OffsetsTo(shape, i, src, row_offsets, col_offsets) ==
    LET rows == shape[1]
        cols == shape[2]
    IN  { o \in row_offsets \X col_offsets :
            LET row == (i \div cols) + o[1]
                col == (i % cols) + o[2]
            IN  /\ row >= 0 /\ row < rows /\ col >= 0 /\ col < cols
                /\ src = row * cols + col }

\* The neighbours visited by the inner loops: offsets in range(-1, 2),
\* not both zero.
NeighbourOffsets(shape, i, src) ==
    { o \in OffsetsTo(shape, i, src, -1 .. 1, -1 .. 1) : o[1] # 0 \/ o[2] # 0 }

\* A variant without the test on col: src = row * cols + col then runs over
\* the end of a row into the next one.
nearest_neighbour_topography_wrapping(shape, self_coupling, neighbour_coupling) ==
    LET rows == shape[1]
        cols == shape[2]
        size == rows * cols
    IN  [shape |-> <<size, size>>,
         data  |-> [k \in Indices(<<size, size>>) |->
                       LET src == k \div size
                           i   == k % size
                           hits == { o \in (-1 .. 1) \X (-1 .. 1) :
                                       LET row == (i \div cols) + o[1]
                                           col == (i % cols) + o[2]
                                       IN  /\ o[1] # 0 \/ o[2] # 0
                                           /\ row >= 0 /\ row < rows
                                           /\ src = row * cols + col }
                       IN  IF hits # {} THEN neighbour_coupling
                           ELSE IF src = i THEN self_coupling
                           ELSE QZero]]

\* A variant whose column loop is range(-1, 1): it never looks to the right.
nearest_neighbour_topography_half_range(shape, self_coupling, neighbour_coupling) ==
    LET size == shape[1] * shape[2]
    IN  [shape |-> <<size, size>>,
         data  |-> [k \in Indices(<<size, size>>) |->
                       LET src == k \div size
                           i   == k % size
                           hits == { o \in OffsetsTo(shape, i, src, -1 .. 1, -1 .. 0) :
                                       o[1] # 0 \/ o[2] # 0 }
                       IN  IF hits # {} THEN neighbour_coupling
                           ELSE IF src = i THEN self_coupling
                           ELSE QZero]]

\* Iteration i writes column i only: result[i, i] first, then
\* result[src, i] for every in-bounds neighbour src of i.
nearest_neighbour_topography(shape, self_coupling, neighbour_coupling) ==
    LET size == shape[1] * shape[2]
    IN  [shape |-> <<size, size>>,
         data  |-> [k \in Indices(<<size, size>>) |->
                       LET src == k \div size
                           i   == k % size
                       IN  IF NeighbourOffsets(shape, i, src) # {}
                             THEN neighbour_coupling
                           ELSE IF src = i THEN self_coupling
                           ELSE QZero]]

\* coupling = self_coupling * math.exp(-distance * decay), with
\* distance = math.sqrt(row_offset * row_offset + col_offset * col_offset).
ExponentialCoupling(self_coupling, decay, row_offset, col_offset) ==
    LET distance == math_sqrt(row_offset * row_offset + col_offset * col_offset)
    IN  RealTimes(self_coupling, math_exp(SurdTimes(SurdNeg(distance), decay)))

\* Iteration i writes result[src, i] for every src reached by an offset in
\* range(-rows, rows) x range(-cols, cols); an entry no iteration writes
\* keeps the 0 of np.zeros.
exponential_topography(shape, self_coupling, decay) ==
    LET rows == shape[1]
        cols == shape[2]
        size == rows * cols
    IN  [shape |-> <<size, size>>,
         data  |-> [k \in Indices(<<size, size>>) |->
                       LET src  == k \div size
                           i    == k % size
                           hits == OffsetsTo(shape, i, src,
                                             (-rows) .. (rows - 1),
                                             (-cols) .. (cols - 1))
                       IN  IF hits = {} THEN QZero
                           ELSE LET o == CHOOSE o \in hits : TRUE
                                IN  ExponentialCoupling(self_coupling, decay,
                                                        o[1], o[2])]]

\* "generate the top row": result[0, src] for src = row * cols + col.
FastTopRow(shape, self_coupling, decay) ==
    [src \in Indices(shape) |->
        ExponentialCoupling(self_coupling, decay,
                            src \div shape[2], src % shape[2])]

\* "Generate an upper triangular matrix by copying the top row":
\* result[i, i:] = result[0, 0:-i] for i in range(1, size).
FastUpperTriangular(shape, self_coupling, decay) ==
    LET size == shape[1] * shape[2]
        top  == FastTopRow(shape, self_coupling, decay)
    IN  [shape |-> <<size, size>>,
         data  |-> [k \in Indices(<<size, size>>) |->
                       LET i == k \div size
                           j == k % size
                       IN  IF i = 0 THEN top[j]
                           ELSE IF j >= i THEN top[j - i]
                           ELSE QZero]]

\* fast_exponential_topography without its last step: the upper triangular
\* matrix is returned as it is.
fast_exponential_topography_unsymmetrized(shape, self_coupling, decay) ==
    FastUpperTriangular(shape, self_coupling, decay)

\* "Make it symmetric": np.maximum(result, result.transpose()).
fast_exponential_topography(shape, self_coupling, decay) ==
    LET result == FastUpperTriangular(shape, self_coupling, decay)
    IN  np_maximum(result, transpose(result))

\* StratifiedCoupling with the decay taken at the row index i instead of at
\* the average of i and j.
StratifiedCoupling_by_row(coupling_multiplier, distance_decay, coupling_decay, i, j) ==
    LET average  == <<i, 1>>
        distance == <<Abs(i - j), 1>>
        exponent == QSub(QMul(QNeg(distance), distance_decay),
                         QMul(average, coupling_decay))
    IN  RealTimes(coupling_multiplier, math_exp(SurdOfRational(exponent)))

\* coupling = coupling_multiplier *
\*            math.exp(-distance * distance_decay - average * coupling_decay)
StratifiedCoupling(coupling_multiplier, distance_decay, coupling_decay, i, j) ==
    LET average  == QMul(<<i + j, 1>>, <<1, 2>>)
        distance == <<Abs(i - j), 1>>
        exponent == QSub(QMul(QNeg(distance), distance_decay),
                         QMul(average, coupling_decay))
    IN  RealTimes(coupling_multiplier, math_exp(SurdOfRational(exponent)))

stratified_topography(shape, coupling_multiplier, distance_decay, coupling_decay) ==
    LET size == shape[1] * shape[2]
    IN  [shape |-> <<size, size>>,
         data  |-> [k \in Indices(<<size, size>>) |->
                       StratifiedCoupling(coupling_multiplier, distance_decay,
                                          coupling_decay, k \div size, k % size)]]

-----------------------------------------------------------------------------
(* numpy arithmetic on arrays of rationals, and the heap.                  *)

\* scalar * array.
ScalarTimes(c, A) ==
    [shape |-> A.shape, data |-> [k \in DOMAIN A.data |-> QMul(c, A.data[k])]]

\* array * array, elementwise.
Times(A, B) ==
    [shape |-> A.shape,
     data  |-> [k \in DOMAIN A.data |-> QMul(A.data[k], B.data[k])]]

Plus(A, B) ==
    [shape |-> A.shape,
     data  |-> [k \in DOMAIN A.data |-> QAdd(A.data[k], B.data[k])]]

Minus(A, B) ==
    [shape |-> A.shape,
     data  |-> [k \in DOMAIN A.data |-> QSub(A.data[k], B.data[k])]]

\* array.shape = shape: the same data under another shape.
Reshape(A, shape) == [A EXCEPT !.shape = shape]

\* A[i, 0] * B[0, j] + ... + A[i, m] * B[m, j].
RECURSIVE DotSum(_, _, _, _, _)
DotSum(A, B, i, j, m) ==
    IF m < 0 THEN QZero
    ELSE QAdd(DotSum(A, B, i, j, m - 1), QMul(At(A, i, m), At(B, m, j)))

\* A.dot(B) for A of shape (p, n) and B of shape (n, q).
dot(A, B) ==
    LET shape == <<A.shape[1], B.shape[2]>>
    IN  [shape |-> shape,
         data  |-> [k \in Indices(shape) |->
                       DotSum(A, B, k \div shape[2], k % shape[2],
                              A.shape[2] - 1)]]

\* The heap with a new array under the reference ref.
New(h, ref, A) == (ref :> A) @@ h

\* ref += A, in place: seen through every alias of ref.
AddInPlace(h, ref, A) == [h EXCEPT ![ref] = Plus(h[ref], A)]

\* ref -= A, in place.
SubInPlace(h, ref, A) == [h EXCEPT ![ref] = Minus(h[ref], A)]

-----------------------------------------------------------------------------
(* SEIR_model.py                                                           *)

SEIR_Model_init(h, populations, beta, sigma, gamma) ==
    LET shape == h[populations].shape
        h1 == New(h,  "s", h[populations])
        h2 == New(h1, "e", np_zeros(shape))
        h3 == New(h2, "i", np_zeros(shape))
        h4 == New(h3, "r", np_zeros(shape))
        h5 == New(h4, "scale",
                  [shape |-> shape,
                   data  |-> [k \in Indices(shape) |->
                                 QDiv(QOne, h4[populations].data[k])]])
    IN  [heap |-> h5,
         self |-> [class |-> "SEIR_Model",
                   beta |-> beta, sigma |-> sigma, gamma |-> gamma,
                   s |-> "s", e |-> "e", i |-> "i", r |-> "r",
                   n |-> populations, scale |-> "scale"]]

\* SEIR_infect without the index: self.s -= infection, self.i += infection
\* broadcast over the whole grid.
SEIR_infect_whole_grid(h, self, cell, infection) ==
    LET h1 == SubInPlace(h, self.s, np_full(h[self.s].shape, infection))
    IN  AddInPlace(h1, self.i, np_full(h1[self.i].shape, infection))

SEIR_infect(h, self, cell, infection) ==
    LET h1 == [h EXCEPT ![self.s].data[Flat(h[self.s].shape, cell[1], cell[2])] =
                            QSub(@, infection)]
    IN  [h1 EXCEPT ![self.i].data[Flat(h1[self.i].shape, cell[1], cell[2])] =
                            QAdd(@, infection)]

\* SEIR_timestep without the division by the population:
\* infectious = self.beta * dt * self.i.
SEIR_timestep_unscaled(h, self, dt, topography) ==
    LET size == Size(h[self.n].shape)
    IN  IF h[topography].shape # <<size, size>>
          THEN [heap |-> h, raised |-> TRUE]
        ELSE
          LET infectious ==
                  Reshape(ScalarTimes(QMul(self.beta, dt), h[self.i]), <<1, size>>)
              exposure == Reshape(dot(infectious, h[topography]), h[self.s].shape)
              newly_exposed   == Times(exposure, h[self.s])
              newly_infected  == ScalarTimes(QMul(self.sigma, dt), h[self.e])
              newly_resistant == ScalarTimes(QMul(self.gamma, dt), h[self.i])
              h1 == SubInPlace(h, self.s, newly_exposed)
              h2 == AddInPlace(h1, self.e, Minus(newly_exposed, newly_infected))
              h3 == AddInPlace(h2, self.i, Minus(newly_infected, newly_resistant))
              h4 == AddInPlace(h3, self.r, newly_resistant)
          IN  [heap |-> h4, raised |-> FALSE]

SEIR_timestep(h, self, dt, topography) ==
    LET size == Size(h[self.n].shape)
    IN  IF h[topography].shape # <<size, size>>
          THEN [heap |-> h, raised |-> TRUE]
        ELSE
          LET infectious ==
                  Reshape(Times(ScalarTimes(QMul(self.beta, dt), h[self.scale]),
                                h[self.i]),
                          <<1, size>>)
              exposure == Reshape(dot(infectious, h[topography]), h[self.s].shape)
              newly_exposed   == Times(exposure, h[self.s])
              newly_infected  == ScalarTimes(QMul(self.sigma, dt), h[self.e])
              newly_resistant == ScalarTimes(QMul(self.gamma, dt), h[self.i])
              h1 == SubInPlace(h, self.s, newly_exposed)
              h2 == AddInPlace(h1, self.e, Minus(newly_exposed, newly_infected))
              h3 == AddInPlace(h2, self.i, Minus(newly_infected, newly_resistant))
              h4 == AddInPlace(h3, self.r, newly_resistant)
          IN  [heap |-> h4, raised |-> FALSE]

-----------------------------------------------------------------------------
(* SEIRDS_model.py                                                         *)

\* SEIRDS_Model_init with self.s = populations: no copy, so S is the
\* caller's array.
SEIRDS_Model_init_aliased(h, populations, beta, sigma, gamma, digamma, rho) ==
    LET shape == h[populations].shape
        h2 == New(h,  "e", np_zeros(shape))
        h3 == New(h2, "i", np_zeros(shape))
        h4 == New(h3, "r", np_zeros(shape))
        h5 == New(h4, "d", np_zeros(shape))
        h6 == New(h5, "scale",
                  [shape |-> shape,
                   data  |-> [k \in Indices(shape) |->
                                 QDiv(QOne, h5[populations].data[k])]])
    IN  [heap |-> h6,
         self |-> [class |-> "SEIRDS_Model",
                   beta |-> beta, sigma |-> sigma, gamma |-> gamma,
                   digamma |-> digamma, rho |-> rho,
                   s |-> populations, e |-> "e", i |-> "i", r |-> "r", d |-> "d",
                   n |-> populations, scale |-> "scale"]]

SEIRDS_Model_init(h, populations, beta, sigma, gamma, digamma, rho) ==
    LET shape == h[populations].shape
        h1 == New(h,  "s", h[populations])
        h2 == New(h1, "e", np_zeros(shape))
        h3 == New(h2, "i", np_zeros(shape))
        h4 == New(h3, "r", np_zeros(shape))
        h5 == New(h4, "d", np_zeros(shape))
        h6 == New(h5, "scale",
                  [shape |-> shape,
                   data  |-> [k \in Indices(shape) |->
                                 QDiv(QOne, h5[populations].data[k])]])
    IN  [heap |-> h6,
         self |-> [class |-> "SEIRDS_Model",
                   beta |-> beta, sigma |-> sigma, gamma |-> gamma,
                   digamma |-> digamma, rho |-> rho,
                   s |-> "s", e |-> "e", i |-> "i", r |-> "r", d |-> "d",
                   n |-> populations, scale |-> "scale"]]

SEIRDS_infect(h, self, cell, infection) ==
    LET h1 == [h EXCEPT ![self.s].data[Flat(h[self.s].shape, cell[1], cell[2])] =
                            QSub(@, infection)]
    IN  [h1 EXCEPT ![self.i].data[Flat(h1[self.i].shape, cell[1], cell[2])] =
                            QAdd(@, infection)]

\* SEIRDS_timestep with self.r += newly_resistant: the people who lose their
\* immunity are added to S and not taken from R.
SEIRDS_timestep_unbalanced(h, self, dt, topography) ==
    LET size == Size(h[self.n].shape)
    IN  IF h[topography].shape # <<size, size>>
          THEN [heap |-> h, raised |-> TRUE]
        ELSE
          LET infectious ==
                  Reshape(Times(ScalarTimes(QMul(self.beta, dt), h[self.scale]),
                                h[self.i]),
                          <<1, size>>)
              exposure == Reshape(dot(infectious, h[topography]), h[self.s].shape)
              newly_exposed     == Times(exposure, h[self.s])
              newly_infected    == ScalarTimes(QMul(self.sigma, dt), h[self.e])
              newly_resistant   == ScalarTimes(QMul(self.gamma, dt), h[self.i])
              newly_dead        == ScalarTimes(QMul(self.digamma, dt), h[self.i])
              newly_susceptible == ScalarTimes(QMul(self.rho, dt), h[self.r])
              h1 == AddInPlace(h,  self.s, Minus(newly_susceptible, newly_exposed))
              h2 == AddInPlace(h1, self.e, Minus(newly_exposed, newly_infected))
              h3 == AddInPlace(h2, self.i,
                               Minus(Minus(newly_infected, newly_resistant),
                                     newly_dead))
              h4 == AddInPlace(h3, self.r, newly_resistant)
              h5 == AddInPlace(h4, self.d, newly_dead)
          IN  [heap |-> h5, raised |-> FALSE]

\* SEIRDS_timestep with the assertion after the flows that need no
\* topography: I, R and D are updated before the shape is checked.
SEIRDS_timestep_late_assert(h, self, dt, topography) ==
    LET size == Size(h[self.n].shape)
        newly_infected    == ScalarTimes(QMul(self.sigma, dt), h[self.e])
        newly_resistant   == ScalarTimes(QMul(self.gamma, dt), h[self.i])
        newly_dead        == ScalarTimes(QMul(self.digamma, dt), h[self.i])
        newly_susceptible == ScalarTimes(QMul(self.rho, dt), h[self.r])
        h1 == AddInPlace(h, self.i,
                         Minus(Minus(newly_infected, newly_resistant), newly_dead))
        h2 == AddInPlace(h1, self.r, Minus(newly_resistant, newly_susceptible))
        h3 == AddInPlace(h2, self.d, newly_dead)
    IN  IF h[topography].shape # <<size, size>>
          THEN [heap |-> h3, raised |-> TRUE]
        ELSE
          LET infectious ==
                  Reshape(Times(ScalarTimes(QMul(self.beta, dt), h[self.scale]),
                                h[self.i]),
                          <<1, size>>)
              exposure == Reshape(dot(infectious, h[topography]), h[self.s].shape)
              newly_exposed == Times(exposure, h[self.s])
              h4 == AddInPlace(h3, self.s, Minus(newly_susceptible, newly_exposed))
              h5 == AddInPlace(h4, self.e, Minus(newly_exposed, newly_infected))
          IN  [heap |-> h5, raised |-> FALSE]

\* SEIRDS_timestep without the division by the population:
\* infectious = self.beta * dt * self.i.
SEIRDS_timestep_unscaled(h, self, dt, topography) ==
    LET size == Size(h[self.n].shape)
    IN  IF h[topography].shape # <<size, size>>
          THEN [heap |-> h, raised |-> TRUE]
        ELSE
          LET infectious ==
                  Reshape(ScalarTimes(QMul(self.beta, dt), h[self.i]),
                          <<1, size>>)
              exposure == Reshape(dot(infectious, h[topography]), h[self.s].shape)
              newly_exposed     == Times(exposure, h[self.s])
              newly_infected    == ScalarTimes(QMul(self.sigma, dt), h[self.e])
              newly_resistant   == ScalarTimes(QMul(self.gamma, dt), h[self.i])
              newly_dead        == ScalarTimes(QMul(self.digamma, dt), h[self.i])
              newly_susceptible == ScalarTimes(QMul(self.rho, dt), h[self.r])
              h1 == AddInPlace(h,  self.s, Minus(newly_susceptible, newly_exposed))
              h2 == AddInPlace(h1, self.e, Minus(newly_exposed, newly_infected))
              h3 == AddInPlace(h2, self.i,
                               Minus(Minus(newly_infected, newly_resistant),
                                     newly_dead))
              h4 == AddInPlace(h3, self.r, Minus(newly_resistant, newly_susceptible))
              h5 == AddInPlace(h4, self.d, newly_dead)
          IN  [heap |-> h5, raised |-> FALSE]

\* SEIRDS_timestep with each flow computed where it is applied: the flows
\* out of E and I read the E and I that the step has already updated.
SEIRDS_timestep_sequential(h, self, dt, topography) ==
    LET size == Size(h[self.n].shape)
    IN  IF h[topography].shape # <<size, size>>
          THEN [heap |-> h, raised |-> TRUE]
        ELSE
          LET infectious ==
                  Reshape(Times(ScalarTimes(QMul(self.beta, dt), h[self.scale]),
                                h[self.i]),
                          <<1, size>>)
              exposure == Reshape(dot(infectious, h[topography]), h[self.s].shape)
              newly_exposed     == Times(exposure, h[self.s])
              newly_susceptible == ScalarTimes(QMul(self.rho, dt), h[self.r])
              h1 == AddInPlace(h,  self.s, Minus(newly_susceptible, newly_exposed))
              h2 == AddInPlace(h1, self.e, newly_exposed)
              newly_infected    == ScalarTimes(QMul(self.sigma, dt), h2[self.e])
              h3 == AddInPlace(SubInPlace(h2, self.e, newly_infected),
                               self.i, newly_infected)
              newly_resistant   == ScalarTimes(QMul(self.gamma, dt), h3[self.i])
              newly_dead        == ScalarTimes(QMul(self.digamma, dt), h3[self.i])
              h4 == SubInPlace(h3, self.i, Plus(newly_resistant, newly_dead))
              h5 == AddInPlace(h4, self.r, Minus(newly_resistant, newly_susceptible))
              h6 == AddInPlace(h5, self.d, newly_dead)
          IN  [heap |-> h6, raised |-> FALSE]

SEIRDS_timestep(h, self, dt, topography) ==
    LET size == Size(h[self.n].shape)
    IN  IF h[topography].shape # <<size, size>>
          THEN [heap |-> h, raised |-> TRUE]
        ELSE
          LET infectious ==
                  Reshape(Times(ScalarTimes(QMul(self.beta, dt), h[self.scale]),
                                h[self.i]),
                          <<1, size>>)
              exposure == Reshape(dot(infectious, h[topography]), h[self.s].shape)
              newly_exposed     == Times(exposure, h[self.s])
              newly_infected    == ScalarTimes(QMul(self.sigma, dt), h[self.e])
              newly_resistant   == ScalarTimes(QMul(self.gamma, dt), h[self.i])
              newly_dead        == ScalarTimes(QMul(self.digamma, dt), h[self.i])
              newly_susceptible == ScalarTimes(QMul(self.rho, dt), h[self.r])
              h1 == AddInPlace(h,  self.s, Minus(newly_susceptible, newly_exposed))
              h2 == AddInPlace(h1, self.e, Minus(newly_exposed, newly_infected))
              h3 == AddInPlace(h2, self.i,
                               Minus(Minus(newly_infected, newly_resistant),
                                     newly_dead))
              h4 == AddInPlace(h3, self.r, Minus(newly_resistant, newly_susceptible))
              h5 == AddInPlace(h4, self.d, newly_dead)
          IN  [heap |-> h5, raised |-> FALSE]

-----------------------------------------------------------------------------
(* The topography driver: one call of one generator, its arguments drawn   *)
(* from small sets, its result kept in the heap as "topography".           *)

NoModel == [class |-> "none"]

TopoShapes == (1 .. MaxSide) \X (1 .. MaxSide)

\* self_coupling / coupling_multiplier / neighbour_coupling arguments.
Couplings == {<<0, 1>>, <<1, 10>>, <<1, 1>>, <<2, 1>>}

\* decay arguments.
Decays == {<<0, 1>>, <<1, 2>>, <<1, 1>>, <<2, 1>>}

TopoCall(fn, shape, a, b, c) ==
    [op |-> fn, shape |-> shape, a |-> a, b |-> b, c |-> c]

Built(call, T) ==
    /\ status = "running"
    /\ calls = <<>>
    /\ heap' = ("topography" :> T)
    /\ calls' = <<call>>
    /\ UNCHANGED <<model, status>>

BuildNearestNeighbour ==
    \E shape \in TopoShapes, sc \in Couplings, nc \in Couplings :
        Built(TopoCall("nearest_neighbour_topography", shape, sc, nc, QZero),
              nearest_neighbour_topography(shape, sc, nc))

BuildExponential ==
    \E shape \in TopoShapes, sc \in Couplings, decay \in Decays :
        Built(TopoCall("exponential_topography", shape, sc, decay, QZero),
              exponential_topography(shape, sc, decay))

BuildFastExponential ==
    \E shape \in TopoShapes, sc \in Couplings, decay \in Decays :
        Built(TopoCall("fast_exponential_topography", shape, sc, decay, QZero),
              fast_exponential_topography(shape, sc, decay))

BuildStratified ==
    \E shape \in TopoShapes, m \in Couplings, dd \in Decays, cd \in Decays :
        Built(TopoCall("stratified_topography", shape, m, dd, cd),
              stratified_topography(shape, m, dd, cd))

TopoInit ==
    /\ heap = [ref \in {} |-> np_zeros(<<1, 1>>)]
    /\ model = NoModel
    /\ calls = <<>>
    /\ status = "running"

TopoNext ==
    \/ BuildNearestNeighbour
    \/ BuildExponential
    \/ BuildFastExponential
    \/ BuildStratified

TopoSpec == TopoInit /\ [][TopoNext]_vars

\* The call that built heap["topography"], and the matrix.
LastCall == calls[1]

T == heap["topography"]

BuiltBy(fn) == calls # <<>> /\ LastCall.op = fn

Symmetric(A) ==
    \A i, j \in 0 .. (A.shape[1] - 1) : At(A, i, j) = At(A, j, i)

-----------------------------------------------------------------------------
(* The simulation driver: it builds a population grid and a topography,    *)
(* constructs one model on them, then calls infect and timestep.           *)

\* Small grids for the general driver, and the (3, 4) grid of the tests.
Shapes == {<<1, 1>>, <<1, 2>>, <<2, 2>>}

TestShape == <<3, 4>>

\* np.full(shape, 100.0) as in the tests, and a grid whose cells differ:
\* 2, 4, 6, ... in row-major order.
Populations(shape) ==
    { np_full(shape, <<100, 1>>),
      [shape |-> shape, data |-> [k \in Indices(shape) |-> <<2 * (k + 1), 1>>]] }

\* np.identity(size), nearest_neighbour_topography(shape, 1.0, 0.1) as in
\* the tests, and an asymmetric matrix: upper triangular, all ones.
Topographies(shape) ==
    LET size == Size(shape)
    IN  { np_identity(size),
          nearest_neighbour_topography(shape, QOne, <<1, 10>>),
          [shape |-> <<size, size>>,
           data  |-> [k \in Indices(<<size, size>>) |->
                         IF k \div size <= k % size THEN QOne ELSE QZero]] }

\* beta, sigma, gamma, digamma, rho: all 1.0 as in the one-step tests, and
\* five different rates.
Rates ==
    { [beta |-> QOne, sigma |-> QOne, gamma |-> QOne, digamma |-> QOne,
       rho |-> QOne],
      [beta |-> <<3, 1>>, sigma |-> <<2, 1>>, gamma |-> QOne,
       digamma |-> <<1, 2>>, rho |-> <<4, 1>>] }

Classes == {"SEIR_Model", "SEIRDS_Model"}

\* The cells a driver seeds: the first and the last cell of the grid.
InfectCells(shape) == {<<0, 0>>, <<shape[1] - 1, shape[2] - 1>>}

\* infection amounts: the default 1.0, and 2.0.
Infections == {QOne, <<2, 1>>}

\* dt: half a time unit, and a day (1.0 / 365.0) as in the tests.
Dts == {<<1, 2>>, <<1, 365>>}

\* The matrices a driver holds: "topography", built for the model's grid,
\* and "other", built for a grid with one more cell.
TopographyRefs == {"topography", "other"}

Compartments(self) ==
    IF self.class = "SEIRDS_Model"
      THEN {self.s, self.e, self.i, self.r, self.d}
      ELSE {self.s, self.e, self.i, self.r}

\* dt.denominator * population * denominator^2 <= MaxScale, for every
\* population of the grid and every denominator of a compartment value.
Fits(h, self, dt) ==
    LET dens == UNION { { h[ref].data[k][2] : k \in DOMAIN h[ref].data } :
                        ref \in Compartments(self) }
        pops == { h[self.n].data[k][1] : k \in DOMAIN h[self.n].data }
    IN  \A den \in dens, pop \in pops :
            den <= (MaxScale \div (dt[2] * pop)) \div den

Call(op, cell, infection, dt, topography) ==
    [op |-> op, cell |-> cell, infection |-> infection, dt |-> dt,
     topography |-> topography]

\* The state after the driver has built its arrays and constructed a model.
Constructed(class, rates, populations, topography) ==
    LET h0 == ("populations" :> populations)
                @@ ("topography" :> topography)
                @@ ("other" :> np_identity(Size(populations.shape) + 1))
        built == IF class = "SEIR_Model"
                   THEN SEIR_Model_init(h0, "populations", rates.beta,
                                        rates.sigma, rates.gamma)
                   ELSE SEIRDS_Model_init(h0, "populations", rates.beta,
                                          rates.sigma, rates.gamma,
                                          rates.digamma, rates.rho)
    IN  /\ heap = built.heap
        /\ model = built.self
        /\ calls = <<>>
        /\ status = "running"

Init ==
    \E shape \in Shapes, class \in Classes, rates \in Rates :
    \E populations \in Populations(shape), topography \in Topographies(shape) :
        Constructed(class, rates, populations, topography)

\* The setup of the tests of both model files: np.full((3, 4), 100.0).
TestInit ==
    \E class \in Classes, rates \in Rates, topography \in Topographies(TestShape) :
        Constructed(class, rates, np_full(TestShape, <<100, 1>>), topography)

CanCall(class) ==
    /\ status = "running"
    /\ model.class = class
    /\ Len(calls) < MaxCalls

InfectSEIR ==
    /\ CanCall("SEIR_Model")
    /\ \E cell \in InfectCells(heap[model.s].shape), infection \in Infections :
        /\ heap' = SEIR_infect(heap, model, cell, infection)
        /\ calls' = Append(calls, Call("infect", cell, infection, QZero, ""))
    /\ UNCHANGED <<model, status>>

InfectSEIRDS ==
    /\ CanCall("SEIRDS_Model")
    /\ \E cell \in InfectCells(heap[model.s].shape), infection \in Infections :
        /\ heap' = SEIRDS_infect(heap, model, cell, infection)
        /\ calls' = Append(calls, Call("infect", cell, infection, QZero, ""))
    /\ UNCHANGED <<model, status>>

\* An AssertionError ends the run.
TimestepSEIR ==
    /\ CanCall("SEIR_Model")
    /\ \E dt \in Dts, topography \in TopographyRefs :
        /\ Fits(heap, model, dt) = TRUE
        /\ LET done == SEIR_timestep(heap, model, dt, topography)
           IN  /\ heap' = done.heap
               /\ status' = IF done.raised THEN "aborted" ELSE "running"
        /\ calls' = Append(calls,
                           Call("timestep", <<0, 0>>, QZero, dt, topography))
    /\ UNCHANGED model

TimestepSEIRDS ==
    /\ CanCall("SEIRDS_Model")
    /\ \E dt \in Dts, topography \in TopographyRefs :
        /\ Fits(heap, model, dt) = TRUE
        /\ LET done == SEIRDS_timestep(heap, model, dt, topography)
           IN  /\ heap' = done.heap
               /\ status' = IF done.raised THEN "aborted" ELSE "running"
        /\ calls' = Append(calls,
                           Call("timestep", <<0, 0>>, QZero, dt, topography))
    /\ UNCHANGED model

Next ==
    \/ InfectSEIR
    \/ TimestepSEIR
    \/ InfectSEIRDS
    \/ TimestepSEIRDS

Spec == Init /\ [][Next]_vars

\* The driver of the tests: the same calls, on the (3, 4) grid.
TestSpec == TestInit /\ [][Next]_vars

-----------------------------------------------------------------------------
(* The state of the model, as the claims read it.                          *)

IsSEIRDS == model.class = "SEIRDS_Model"

Cells == DOMAIN heap[model.s].data

S(k) == heap[model.s].data[k]
E(k) == heap[model.e].data[k]
I(k) == heap[model.i].data[k]
R(k) == heap[model.r].data[k]
D(k) == IF IsSEIRDS THEN heap[model.d].data[k] ELSE QZero
N(k) == heap[model.n].data[k]

GridShape == heap[model.s].shape

\* A.data[0] + ... + A.data[k].
RECURSIVE SumUpTo(_, _)
SumUpTo(A, k) == IF k < 0 THEN QZero ELSE QAdd(SumUpTo(A, k - 1), A.data[k])

np_sum(A) == SumUpTo(A, Size(A.shape) - 1)

LastOp == calls[Len(calls)]

\* The run began with a seeding, followed at once by n completed timesteps.
SeededThenStepped(n) ==
    /\ Len(calls) >= n + 1
    /\ calls[1].op = "infect"
    /\ \A m \in 2 .. (n + 1) :
          calls[m].op = "timestep" /\ calls[m].topography = "topography"

-----------------------------------------------------------------------------
\* C1.  Conservation: after any sequence of infect and timestep calls every
\* cell has S + E + I + R (+ D) = N, and so the grid totals of the
\* compartments add up to the total population.
Conservation ==
    /\ \A k \in Cells :
          QAdd(QAdd(QAdd(QAdd(S(k), E(k)), I(k)), R(k)), D(k)) = N(k)
    /\ QAdd(QAdd(QAdd(QAdd(np_sum(heap[model.s]), np_sum(heap[model.e])),
                      np_sum(heap[model.i])), np_sum(heap[model.r])),
            IF IsSEIRDS THEN np_sum(heap[model.d]) ELSE QZero)
         = np_sum(heap[model.n])

\* An SEIRDS model that was seeded and stepped twice, with people in every
\* compartment of one cell and a second step that moved some of R back to S.
ConservationWitness ==
    /\ IsSEIRDS
    /\ status = "running"
    /\ SeededThenStepped(2)
    /\ model.rho # QZero
    /\ \E k \in Cells :
          /\ E(k) # QZero /\ I(k) # QZero /\ R(k) # QZero /\ D(k) # QZero
          /\ S(k) # N(k)

-----------------------------------------------------------------------------
\* C2.  Fast-exponential equals direct-exponential: for every grid shape
\* and all parameters (c, d), fast_exponential_topography(shape, c, d) equals
\* exponential_topography(shape, c, d) at every entry.
FastEqualsDirect ==
    BuiltBy("fast_exponential_topography") =>
        \A i, j \in 0 .. (Size(LastCall.shape) - 1) :
            At(T, i, j)
              = At(exponential_topography(LastCall.shape, LastCall.a, LastCall.b),
                   i, j)

-----------------------------------------------------------------------------
\* C3 as stated.  The stratified topography is not symmetric when
\* coupling_decay # 0: on a grid of at least two cells, with m # 0 and
\* coupling_decay # 0, some pair i # j has T[i, j] # T[j, i].
StratifiedNotSymmetric ==
    ( /\ BuiltBy("stratified_topography")
      /\ Size(LastCall.shape) >= 2
      /\ LastCall.a # QZero
      /\ LastCall.c # QZero )
        => \E i, j \in 0 .. (Size(LastCall.shape) - 1) :
              i # j /\ At(T, i, j) # At(T, j, i)

\* C3 as amended.  The stratified topography is symmetric for every
\* coupling_decay: T[i, j] = T[j, i] for all cells i, j.
StratifiedSymmetric ==
    BuiltBy("stratified_topography") => Symmetric(T)

\* A stratified topography of a grid of at least two cells, built with
\* m # 0 and coupling_decay # 0: its entries differ along the diagonal.
StratifiedWitness ==
    /\ BuiltBy("stratified_topography")
    /\ Size(LastCall.shape) >= 2
    /\ LastCall.a # QZero
    /\ LastCall.c # QZero
    /\ At(T, 0, 0) # At(T, 1, 1)
    /\ At(T, 0, 1) # At(T, 0, 0)

-----------------------------------------------------------------------------
\* C4.  Symmetry: for every grid shape and every non-negative self_coupling
\* and decay, the matrices of exponential_topography and of
\* fast_exponential_topography are symmetric: T[i, j] = T[j, i] for all
\* cells i, j.
ExponentialSymmetric ==
    (BuiltBy("exponential_topography") \/ BuiltBy("fast_exponential_topography"))
        => Symmetric(T)

\* A fast exponential topography of a grid with two rows and two columns at
\* least, with a positive coupling that decays: the couplings of different
\* distances differ.
ExponentialSymmetricWitness ==
    /\ BuiltBy("fast_exponential_topography")
    /\ LastCall.shape[1] >= 2 /\ LastCall.shape[2] >= 2
    /\ LastCall.a # QZero
    /\ LastCall.b # QZero
    /\ At(T, 1, 0) # QZero
    /\ At(T, 0, 1) # At(T, 0, 2)

-----------------------------------------------------------------------------
(* What a step of the driver did, read off the record of its call.         *)

Called(op) == Len(calls') = Len(calls) + 1 /\ calls'[Len(calls')].op = op

NewCall == calls'[Len(calls')]

\* The flat index of the cell (row, col) = cell of the model's grid.
CellIndex(cell) == cell[1] * GridShape[2] + cell[2]

RightShape(ref) == heap[ref].shape = <<Size(GridShape), Size(GridShape)>>

-----------------------------------------------------------------------------
\* C5.  Shape precondition: timestep(dt, topography) called with
\* topography.shape # (cells, cells) fails with an assertion, and it fails
\* before any compartment array is modified: the state of the model is what
\* it was before the call.
ShapeMismatchAbortsUnchanged ==
    [][ (Called("timestep") /\ ~RightShape(NewCall.topography))
            => (status' = "aborted" /\ heap' = heap /\ model' = model) ]_vars

\* An SEIRDS run that ended in the assertion, after a seeding and a step
\* that left people in I and R: a step that would have moved some.
ShapeMismatchWitness ==
    /\ IsSEIRDS
    /\ status = "aborted"
    /\ LastOp.op = "timestep"
    /\ ~(heap[LastOp.topography].shape = <<Size(GridShape), Size(GridShape)>>)
    /\ \E k \in Cells : I(k) # QZero /\ R(k) # QZero

-----------------------------------------------------------------------------
\* C6.  Seeding correctness: on a freshly constructed model, infect(cell, x)
\* decreases S[cell] by exactly x and increases I[cell] by exactly x, and
\* leaves every other cell of S and I and every cell of E, R (and D), N and
\* scale unchanged.
SeedingCorrect ==
    [][ (calls = <<>> /\ Called("infect"))
            => LET c == CellIndex(NewCall.cell)
                   x == NewCall.infection
               IN  /\ \A k \in Cells :
                        /\ heap'[model.s].data[k]
                             = IF k = c THEN QSub(S(k), x) ELSE S(k)
                        /\ heap'[model.i].data[k]
                             = IF k = c THEN QAdd(I(k), x) ELSE I(k)
                   /\ heap'[model.e] = heap[model.e]
                   /\ heap'[model.r] = heap[model.r]
                   /\ IsSEIRDS => heap'[model.d] = heap[model.d]
                   /\ heap'[model.n] = heap[model.n]
                   /\ heap'[model.scale] = heap[model.scale]
                   /\ DOMAIN heap' = DOMAIN heap ]_vars

\* A model of a grid of several cells whose only call so far seeded the last
\* cell: S and I differ from their initial values there and nowhere else.
SeedingWitness ==
    /\ Len(calls) = 1
    /\ calls[1].op = "infect"
    /\ Cardinality(Cells) >= 2
    /\ CellIndex(calls[1].cell) # 0
    /\ I(CellIndex(calls[1].cell)) = calls[1].infection
    /\ I(0) = QZero
    /\ S(0) = N(0)

-----------------------------------------------------------------------------
\* C7.  Frame of the model operations: after construction, no infect or
\* timestep call changes the caller's population array (which the model
\* holds as N), the scale, the rate parameters or a topography matrix; only
\* the compartment arrays S, E, I, R (and D) change.
FrameOfOperations ==
    [][ /\ heap'["populations"] = heap["populations"]
        /\ heap'[model.n] = heap[model.n]
        /\ heap'[model.scale] = heap[model.scale]
        /\ heap'["topography"] = heap["topography"]
        /\ heap'["other"] = heap["other"]
        /\ model' = model
        /\ DOMAIN heap' = DOMAIN heap ]_vars

\* An SEIRDS model after a seeding and two steps that changed every
\* compartment of the seeded cell, with the population array as it was.
FrameWitness ==
    /\ IsSEIRDS
    /\ SeededThenStepped(2)
    /\ \E n \in {1} :
          /\ calls[n].op = "infect"
          /\ LET k == CellIndex(calls[n].cell)
             IN  /\ S(k) # N(k) /\ E(k) # QZero /\ I(k) # QZero
                 /\ R(k) # QZero /\ D(k) # QZero
                 /\ heap["populations"].data[k] = N(k)

-----------------------------------------------------------------------------
\* C8.  Concrete scenario: an SEIRDS model on a (3, 4) grid with population
\* 100 per cell and beta = sigma = gamma = digamma = rho = 1, infect((0, 0))
\* with amount 1, identity topography, dt = 1/365.  After one timestep
\* I[0,0] = 1 - (gamma + digamma) * dt, S[0,0] = 99 - beta*dt*(1/100)*1*99,
\* E[0,0] = beta*dt*(1/100)*1*99, R[0,0] = gamma*dt, D[0,0] = digamma*dt, and
\* every other cell still has S = 100 and E = I = R = D = 0.
ScenarioSetup ==
    /\ IsSEIRDS
    /\ heap["populations"] = np_full(TestShape, <<100, 1>>)
    /\ heap["topography"] = np_identity(12)
    /\ model.beta = QOne /\ model.sigma = QOne /\ model.gamma = QOne
    /\ model.digamma = QOne /\ model.rho = QOne

ScenarioCalls ==
    calls = << Call("infect", <<0, 0>>, QOne, QZero, ""),
               Call("timestep", <<0, 0>>, QZero, <<1, 365>>, "topography") >>

OneStepScenario ==
    (ScenarioSetup /\ ScenarioCalls) =>
        LET dt == <<1, 365>>
            exposed == QMul(QMul(QMul(QMul(model.beta, dt), <<1, 100>>), QOne),
                            <<99, 1>>)
        IN  /\ I(0) = QSub(QOne, QMul(QAdd(model.gamma, model.digamma), dt))
            /\ S(0) = QSub(<<99, 1>>, exposed)
            /\ E(0) = exposed
            /\ R(0) = QMul(model.gamma, dt)
            /\ D(0) = QMul(model.digamma, dt)
            /\ \A k \in Cells \ {0} :
                  /\ S(k) = <<100, 1>>
                  /\ E(k) = QZero /\ I(k) = QZero /\ R(k) = QZero /\ D(k) = QZero

\* The scenario has run: the model of the test, seeded at (0, 0) and stepped
\* once by a day.
OneStepScenarioWitness ==
    /\ ScenarioSetup
    /\ ScenarioCalls
    /\ status = "running"
    /\ I(0) = <<363, 365>>

-----------------------------------------------------------------------------
\* C9.  Identity topography reduces to the non-spatial model: on a
\* single-cell grid with T = [1], after any number of timestep calls the
\* model's (S, E, I, R[, D]) is the state of the classical scalar equations
\* advanced by forward Euler with the same dt from the same start:
\*   S' = S + rho*dt*R - beta*dt*S*I/N,  E' = E + beta*dt*S*I/N - sigma*dt*E,
\*   I' = I + sigma*dt*E - (gamma + digamma)*dt*I,
\*   R' = R + gamma*dt*I - rho*dt*R,  D' = D + digamma*dt*I
\* (rho = digamma = 0 and no D for SEIR).
ScalarEuler(x, n, beta, sigma, gamma, digamma, rho, dt) ==
    LET exposure == QDiv(QMul(QMul(QMul(beta, dt), x.S), x.I), n)
    IN  [S |-> QSub(QAdd(x.S, QMul(QMul(rho, dt), x.R)), exposure),
         E |-> QSub(QAdd(x.E, exposure), QMul(QMul(sigma, dt), x.E)),
         I |-> QSub(QAdd(x.I, QMul(QMul(sigma, dt), x.E)),
                    QMul(QMul(QAdd(gamma, digamma), dt), x.I)),
         R |-> QSub(QAdd(x.R, QMul(QMul(gamma, dt), x.I)),
                    QMul(QMul(rho, dt), x.R)),
         D |-> QAdd(x.D, QMul(QMul(digamma, dt), x.I))]

\* The scalar state after the first n calls of the run: a seeding moves its
\* amount from S to I, a completed timestep is one Euler step.
RECURSIVE ScalarRun(_)
ScalarRun(n) ==
    IF n = 0
      THEN [S |-> N(0), E |-> QZero, I |-> QZero, R |-> QZero, D |-> QZero]
    ELSE
      LET x == ScalarRun(n - 1)
          c == calls[n]
      IN  IF c.op = "infect"
            THEN [x EXCEPT !.S = QSub(@, c.infection), !.I = QAdd(@, c.infection)]
          ELSE IF c.topography # "topography" THEN x
          ELSE ScalarEuler(x, N(0), model.beta, model.sigma, model.gamma,
                           IF IsSEIRDS THEN model.digamma ELSE QZero,
                           IF IsSEIRDS THEN model.rho ELSE QZero,
                           c.dt)

SingleCellIsScalar ==
    (GridShape = <<1, 1>> /\ heap["topography"] = np_identity(1)) =>
        LET x == ScalarRun(Len(calls))
        IN  /\ S(0) = x.S /\ E(0) = x.E /\ I(0) = x.I /\ R(0) = x.R
            /\ IsSEIRDS => D(0) = x.D

\* A single-cell SEIR model, seeded and then stepped twice, with people in
\* every compartment.
SingleCellWitness ==
    /\ GridShape = <<1, 1>>
    /\ heap["topography"] = np_identity(1)
    /\ ~IsSEIRDS
    /\ status = "running"
    /\ SeededThenStepped(2)
    /\ S(0) # N(0) /\ E(0) # QZero /\ I(0) # QZero /\ R(0) # QZero

-----------------------------------------------------------------------------
\* C10.  Simultaneous update: in timestep every flow is a function of the
\* state before the call only; the post-state of each compartment is its
\* pre-state plus inflows minus outflows computed from the pre-update S, E,
\* I, R, with the exposure at a destination cell dst equal to
\* S[dst] * sum over src of (beta * dt * I[src] / N[src]) * T[src, dst].
RECURSIVE PressureOn(_, _, _, _)
PressureOn(dst, dt, topography, src) ==
    IF src < 0 THEN QZero
    ELSE QAdd(PressureOn(dst, dt, topography, src - 1),
              QMul(QDiv(QMul(QMul(model.beta, dt), I(src)), N(src)),
                   At(heap[topography], src, dst)))

-----------------------------------------------------------------------------
\* C11.  Nearest-neighbour rule: for every grid shape (rows, cols) the matrix
\* of nearest_neighbour_topography has shape (cells, cells), T[i, i] is
\* self_coupling for every cell i, T[n, i] is neighbour_coupling for exactly
\* the cells n # i whose row and column each differ from those of i by at
\* most 1 (row-major indexing, inside the grid), and every other entry is 0.
NearestNeighbourRule ==
    BuiltBy("nearest_neighbour_topography") =>
        LET cols  == LastCall.shape[2]
            cells == LastCall.shape[1] * LastCall.shape[2]
            Adjacent(n, i) ==
                /\ n # i
                /\ Abs((n \div cols) - (i \div cols)) <= 1
                /\ Abs((n % cols) - (i % cols)) <= 1
        IN  /\ T.shape = <<cells, cells>>
            /\ DOMAIN T.data = 0 .. (cells * cells - 1)
            /\ \A i, n \in 0 .. (cells - 1) :
                  T.data[n * cells + i]
                    = IF n = i THEN LastCall.a
                      ELSE IF Adjacent(n, i) THEN LastCall.b
                      ELSE QZero

\* A nearest-neighbour topography of the 3 x 3 grid with three different
\* values 0, self_coupling and neighbour_coupling: the centre cell 4 has
\* eight neighbours, the corner cell 0 has three, and cell 2, at the end of
\* the first row, is no neighbour of cell 3, at the start of the second.
NearestNeighbourWitness ==
    /\ BuiltBy("nearest_neighbour_topography")
    /\ LastCall.shape = <<3, 3>>
    /\ LastCall.a # QZero /\ LastCall.b # QZero /\ LastCall.a # LastCall.b
    /\ Cardinality({ n \in 0 .. 8 : At(T, n, 4) = LastCall.b }) = 8
    /\ Cardinality({ n \in 0 .. 8 : At(T, n, 0) = LastCall.b }) = 3
    /\ At(T, 3, 2) = QZero
    /\ At(T, 4, 4) = LastCall.a

-----------------------------------------------------------------------------
\* C12.  The nearest-neighbour topography is symmetric for every grid shape,
\* boundaries included: T[i, j] = T[j, i] for all cells i, j.
NearestNeighbourSymmetric ==
    BuiltBy("nearest_neighbour_topography") => Symmetric(T)

\* A nearest-neighbour topography of a grid with two rows and three columns
\* at least, with a non-zero neighbour coupling: the corner cell 0 couples
\* with cell 1 beside it and not with cell 2, in both directions.
NearestNeighbourSymmetricWitness ==
    /\ BuiltBy("nearest_neighbour_topography")
    /\ LastCall.shape[1] >= 2 /\ LastCall.shape[2] >= 3
    /\ LastCall.b # QZero
    /\ At(T, 0, 1) = LastCall.b /\ At(T, 1, 0) = LastCall.b
    /\ At(T, 0, 2) = QZero /\ At(T, 2, 0) = QZero

====
